---- MODULE Spec2Model ----
(***************************************************************************)
(* State machine of the task manager: the TaskProvider state container     *)
(* (tasks, categories, localStorage persistence), the UI handlers that     *)
(* call it (TaskForm, TaskCard, Categories page) and the derived view      *)
(* builder of the task page (filteredTasks, groupedTasks).                 *)
(*                                                                         *)
(* Encoding of JavaScript values:                                          *)
(*   string             a tuple of one-character strings (titles, names,   *)
(*                      search text) or an atomic TLA+ string (ids, enum   *)
(*                      values, colours)                                   *)
(*   optional field     Undefined (= <<>>) or Def(v) (= <<v>>)             *)
(*   Date               its epoch time, counted in clock ticks             *)
(*   JSON text          the value tree it denotes: a list of objects, an   *)
(*                      object being a function whose domain holds only    *)
(*                      the keys JSON.stringify writes; a date is written  *)
(*                      as its ISO string, modelled as <<day, tick of day>>*)
(***************************************************************************)
EXTENDS Integers, Sequences, FiniteSets, TLC

VARIABLES
    page,            \* "closed", "index" (task page) or "categories": the mounted route
    crashed,         \* TRUE when the mounted tree was torn down by an uncaught error
    thrown,          \* the error the last handler raised, "none" if it raised none
    tasks,           \* TaskProvider state: tasks
    categories,      \* TaskProvider state: categories
    storage,         \* localStorage: the items under keys 'tasks' and 'categories'
    clock,           \* the system clock (what new Date() reads)
    uuidCount,       \* how many identifiers uuidv4() has handed out
    nOps,            \* how many events (UI handlers run, clock ticks) there have been
    lastCall,        \* the provider function the last handler called
    searchQuery,     \* TaskManager state: searchQuery
    filterPriority,  \* TaskManager state: filterPriority
    filterCategory,  \* TaskManager state: filterCategory
    viewMode,        \* TaskManager state: viewMode
    isAddDialogOpen, \* TaskManager state: isAddDialogOpen
    editingTask,     \* TaskManager state: editingTask (a task as it was when its edit button was clicked)
    isDialogOpen,    \* CategoryManager state: isDialogOpen
    editingCategory, \* CategoryManager state: editingCategory
    form,            \* the state of the mounted TaskForm or CategoryForm, Undefined when none is mounted
    timers,          \* how many setTimeout(..., 300) callbacks of the mounted page are pending
    opener           \* which button opened the dialog last: "none", "add", or "edit" with the id of the card

vars == <<page, crashed, thrown, tasks, categories, storage, clock, uuidCount,
          nOps, lastCall, searchQuery, filterPriority, filterCategory, viewMode,
          isAddDialogOpen, editingTask, isDialogOpen, editingCategory, form, timers,
          opener>>

provider == <<tasks, categories, storage>>
view == <<searchQuery, filterPriority, filterCategory, viewMode>>
dialog == <<isAddDialogOpen, editingTask, isDialogOpen, editingCategory, form, timers,
            opener>>

----------------------------------------------------------------------------
\* Bounds of the model.

MaxOps == 2          \* events (UI handlers run, clock ticks) in one behaviour
TicksPerDay == 2     \* clock ticks in one calendar day

----------------------------------------------------------------------------
\* JavaScript values.

Undefined == <<>>
Def(v) == <<v>>

\* x || y for an optional x
OrElse(x, y) == IF x # Undefined THEN x[1] ELSE y

Range(s) == {s[i] : i \in 1..Len(s)}

EmptyString == <<>>
Space == " "

UpperChars == <<"A","B","C","D","E","F","G","H","I","J","K","L","M",
                "N","O","P","Q","R","S","T","U","V","W","X","Y","Z">>
LowerChars == <<"a","b","c","d","e","f","g","h","i","j","k","l","m",
                "n","o","p","q","r","s","t","u","v","w","x","y","z">>

\* The small letter of each capital letter.
LowerCaseOf ==
    [c \in Range(UpperChars) |-> LowerChars[CHOOSE i \in 1..Len(UpperChars) : UpperChars[i] = c]]

toLowerCaseChar(c) == IF c \in DOMAIN LowerCaseOf THEN LowerCaseOf[c] ELSE c

\* Mutant of toLowerCase: the text is compared as typed.
toLowerCase_AsTyped(s) == s

\* String.prototype.toLowerCase
toLowerCase(s) == [i \in 1..Len(s) |-> toLowerCaseChar(s[i])]

\* String.prototype.trim: drop the leading and the trailing white space
RECURSIVE trimStart(_)
trimStart(s) == IF s # <<>> /\ Head(s) = Space THEN trimStart(Tail(s)) ELSE s

RECURSIVE trimEnd(_)
trimEnd(s) ==
    IF s # <<>> /\ s[Len(s)] = Space THEN trimEnd(SubSeq(s, 1, Len(s) - 1)) ELSE s

\* Mutant of trim: the text is taken as typed.
trim_Keeps(s) == s

trim(s) == trimEnd(trimStart(s))

\* String.prototype.includes: scan the start positions from the left
RECURSIVE includesFrom(_, _, _)
includesFrom(s, q, i) ==
    IF i + Len(q) - 1 > Len(s) THEN FALSE
    ELSE IF SubSeq(s, i, i + Len(q) - 1) = q THEN TRUE
    ELSE includesFrom(s, q, i + 1)

includes(s, q) == includesFrom(s, q, 1)

----------------------------------------------------------------------------
\* src/models/Task.ts and the constants of TaskContext.tsx.

Priority == {"low", "medium", "high"}
Status == {"todo", "in-progress", "completed"}

TaskFields == {"id", "title", "description", "createdAt", "updatedAt",
               "dueDate", "priority", "status", "categoryId"}

defaultCategories == <<
    [id |-> "1", name |-> <<"W","o","r","k">>, color |-> "#3b82f6"],
    [id |-> "2", name |-> <<"P","e","r","s","o","n","a","l">>, color |-> "#10b981"],
    [id |-> "3", name |-> <<"S","h","o","p","p","i","n","g">>, color |-> "#f59e0b"],
    [id |-> "4", name |-> <<"H","e","a","l","t","h">>, color |-> "#ef4444"] >>

\* Mutant of uuidv4: an identifier source that repeats itself.
uuidv4_Recycles(n) == "uuid-" \o ToString(n % 2)

\* uuidv4(): the n-th identifier handed out; version-4 UUIDs are 36 characters
\* long, so none equals a default category id, and no two draws coincide.
uuidv4(n) == "uuid-" \o ToString(n)

Ids(coll) == {coll[i].id : i \in 1..Len(coll)}

----------------------------------------------------------------------------
\* JSON.stringify / JSON.parse of the two collections, and localStorage.

OptionalFields == {"description", "dueDate", "categoryId"}
DateFields == {"createdAt", "updatedAt", "dueDate"}

\* Date.prototype.toJSON: the ISO string, here <<day, tick of the day>>
toISOString(d) == <<d \div TicksPerDay, d % TicksPerDay>>

\* Mutant of newDate: only the date part of the ISO string is read.
newDate_DateOnly(iso) == iso[1] * TicksPerDay

\* new Date(isoString)
newDate(iso) == iso[1] * TicksPerDay + iso[2]

\* JSON.stringify of one task: a key whose value is undefined is not written,
\* a Date is written as its ISO string.
TaskToJSON(t) ==
    LET written == (TaskFields \ OptionalFields)
                      \cup {k \in OptionalFields : t[k] # Undefined}
        raw(k) == IF k \in OptionalFields THEN t[k][1] ELSE t[k]
    IN  [k \in written |-> IF k \in DateFields THEN toISOString(raw(k)) ELSE raw(k)]

CategoryToJSON(c) == [k \in {"id", "name", "color"} |-> c[k]]

\* What localStorage.getItem returns: null, a text that is no JSON list, or
\* the text of a JSON list.
NullItem == [kind |-> "null"]
MalformedItem == [kind |-> "malformed"]
JsonItem(list) == [kind |-> "json", value |-> list]

stringifyTasks(ts) == JsonItem([i \in 1..Len(ts) |-> TaskToJSON(ts[i])])
stringifyCategories(cs) == JsonItem([i \in 1..Len(cs) |-> CategoryToJSON(cs[i])])

\* Reading a key of a parsed object: undefined when the key is absent.
Get(o, k) == IF k \in DOMAIN o THEN Def(o[k]) ELSE Undefined

\* The map of the load effect: {...task, createdAt: new Date(task.createdAt),
\* updatedAt: new Date(task.updatedAt),
\* dueDate: task.dueDate ? new Date(task.dueDate) : undefined}
rehydrateTask(o) ==
    [id          |-> o.id,
     title       |-> o.title,
     description |-> Get(o, "description"),
     createdAt   |-> newDate(o.createdAt),
     updatedAt   |-> newDate(o.updatedAt),
     dueDate     |-> IF Get(o, "dueDate") # Undefined
                     THEN Def(newDate(o.dueDate)) ELSE Undefined,
     priority    |-> o.priority,
     status      |-> o.status,
     categoryId  |-> Get(o, "categoryId")]

parseCategory(o) == [id |-> o.id, name |-> o.name, color |-> o.color]

\* The load effect of TaskProvider. JSON.parse throws a SyntaxError on a text
\* that is no JSON; the throw leaves the effect, so what follows it is not run.
\* The result: did it throw, and the state updates it queued.
loadEffect(st) ==
    LET storedTasks == st.tasks
        storedCategories == st.categories
        tasksThrow == storedTasks.kind = "malformed"
        categoriesThrow == ~tasksThrow /\ storedCategories.kind = "malformed"
    IN  [threw |-> tasksThrow \/ categoriesThrow,
         setTasks |->
            IF storedTasks.kind = "json"
            THEN Def([i \in 1..Len(storedTasks.value) |->
                         rehydrateTask(storedTasks.value[i])])
            ELSE Undefined,
         setCategories |->
            IF ~tasksThrow /\ storedCategories.kind = "json"
            THEN Def([i \in 1..Len(storedCategories.value) |->
                         parseCategory(storedCategories.value[i])])
            ELSE Undefined]

\* The two save effects: each writes its collection when it has changed
\* (and once after the first render).
saveTasksEffect(st, ts) == [st EXCEPT !.tasks = stringifyTasks(ts)]
saveCategoriesEffect(st, cs) == [st EXCEPT !.categories = stringifyCategories(cs)]

\* Mutant of saveEffects: the categories are saved only when the tasks have
\* not changed in the same render.
saveEffects_OneKey(st, ts, tasksChanged, cs, categoriesChanged) ==
    IF tasksChanged THEN [st EXCEPT !.tasks = stringifyTasks(ts)]
    ELSE IF categoriesChanged THEN [st EXCEPT !.categories = stringifyCategories(cs)]
    ELSE st

\* The effects that follow a render in which setTasks / setCategories replaced
\* the collection.
saveEffects(st, ts, tasksChanged, cs, categoriesChanged) ==
    LET st1 == IF tasksChanged THEN saveTasksEffect(st, ts) ELSE st
    IN  IF categoriesChanged THEN saveCategoriesEffect(st1, cs) ELSE st1

----------------------------------------------------------------------------
\* The provider's operations, as the updater functions they pass to setTasks
\* and setCategories.

\* {...a, ...b}
Spread(a, b) == [k \in DOMAIN a \cup DOMAIN b |-> IF k \in DOMAIN b THEN b[k] ELSE a[k]]

\* addTask: the identifier and the two clock readings are drawn by the caller
addTask(prevTasks, task, id, created, updated) ==
    Append(prevTasks, Spread(task, [id |-> id, createdAt |-> created, updatedAt |-> updated]))

updateTask(prevTasks, id, updatedFields, now) ==
    [i \in 1..Len(prevTasks) |->
        IF prevTasks[i].id = id
        THEN Spread(Spread(prevTasks[i], updatedFields), [updatedAt |-> now])
        ELSE prevTasks[i]]

\* Mutant of deleteTask: splice(findIndex(...), 1), which removes the last task
\* when findIndex finds none and returns -1.
deleteTask_Splice(prevTasks, id) ==
    IF \E i \in 1..Len(prevTasks) : prevTasks[i].id = id
    THEN SelectSeq(prevTasks, LAMBDA task : task.id # id)
    ELSE SubSeq(prevTasks, 1, Len(prevTasks) - 1)

deleteTask(prevTasks, id) == SelectSeq(prevTasks, LAMBDA task : task.id # id)

addCategory(prevCategories, category, id) ==
    Append(prevCategories, Spread(category, [id |-> id]))

updateCategory(prevCategories, id, updatedFields) ==
    [i \in 1..Len(prevCategories) |->
        IF prevCategories[i].id = id
        THEN Spread(prevCategories[i], updatedFields)
        ELSE prevCategories[i]]

\* Mutant of deleteCategoryFromTasks: the tasks keep their reference.
deleteCategoryFromTasks_Keeps(prevTasks, id) == prevTasks

\* Mutant of deleteCategoryFromTasks: the deletion cascades to the tasks.
deleteCategoryFromTasks_Cascades(prevTasks, id) ==
    SelectSeq(prevTasks, LAMBDA task : task.categoryId # Def(id))

\* deleteCategory: first the tasks that reference the category ...
deleteCategoryFromTasks(prevTasks, id) ==
    [i \in 1..Len(prevTasks) |->
        IF prevTasks[i].categoryId = Def(id)
        THEN Spread(prevTasks[i], [categoryId |-> Undefined])
        ELSE prevTasks[i]]

\* ... then the category itself
deleteCategoryItself(prevCategories, id) ==
    SelectSeq(prevCategories, LAMBDA category : category.id # id)

----------------------------------------------------------------------------
\* What the user can enter.

BuyGroceries == <<"B","u","y"," ","g","r","o","c","e","r","i","e","s">>
PayBills == <<"P","a","y"," ","b","i","l","l","s">>
Rent == <<"r","e","n","t">>
Errands == <<"E","r","r","a","n","d","s">>

\* States of the task form at the moment it is submitted: the fields as
\* useState holds them (description is a string, '' when left empty).
FormInputs ==
    { [title |-> BuyGroceries, description |-> EmptyString, priority |-> "medium",
       status |-> "todo", dueDate |-> Undefined],
      [title |-> PayBills, description |-> Rent, priority |-> "high",
       status |-> "completed", dueDate |-> Def(TicksPerDay)],
      [title |-> <<Space, Space>>, description |-> Rent, priority |-> "low",
       status |-> "in-progress", dueDate |-> Undefined] }

\* States of the category form at the moment it is submitted.
CategoryFormInputs ==
    { [name |-> Errands, color |-> "#000000"],
      [name |-> <<Space>>, color |-> "#3b82f6"] }

\* Where the user clicks in a list of n cards or items: the first or the last.
ClickPositions(n) == {i \in {1, n} : 1 <= i /\ i <= n}

\* Identifiers that have existed: a form can still hold the task or the
\* category it was opened for after that one was deleted.
HandedOut == {uuidv4(n) : n \in 1..uuidCount}
KnownIds == HandedOut \cup Ids(defaultCategories)

\* The `task` prop of TaskForm: none, or a task by its identifier.
TaskProps ==
    {Undefined} \cup {Def(tasks[i].id) : i \in ClickPositions(Len(tasks))}
                \cup {Def(id) : id \in HandedOut \ Ids(tasks)}

\* The `category` prop of CategoryForm.
CategoryProps ==
    {Undefined} \cup {Def(categories[i].id) : i \in ClickPositions(Len(categories))}
                \cup {Def(id) : id \in KnownIds \ Ids(categories)}

\* The category the task form holds: None, one of the select's items (the
\* categories of the provider), or the one the edited task came with.
CategoryOptions ==
    {Undefined} \cup {Def(categories[i].id) : i \in ClickPositions(Len(categories))}
                \cup {tasks[i].categoryId : i \in 1..Len(tasks)}

----------------------------------------------------------------------------
\* TaskManager: the derived view of the task page.

\* !x for an optional string: undefined and '' are falsy
Falsy(x) == x = Undefined \/ x[1] = ""

\* const filteredTasks = useMemo(() => tasks.filter(...))
filteredTasks(ts, query, priority, category) ==
    SelectSeq(ts, LAMBDA task :
        LET matchesSearch ==
                \/ query = EmptyString
                \/ includes(toLowerCase(task.title), toLowerCase(query))
                \/ /\ task.description # Undefined
                   /\ includes(toLowerCase(task.description[1]), toLowerCase(query))
            matchesPriority ==
                \/ priority = "all"
                \/ task.priority = priority
            matchesCategory ==
                \/ category = "all"
                \/ (category = "none" /\ Falsy(task.categoryId))
                \/ task.categoryId = Def(category)
        IN  matchesSearch /\ matchesPriority /\ matchesCategory)

\* Mutant of startOfDay: the time of the day is kept.
startOfDay_Keeps(d) == d

\* Date.prototype.setHours(0, 0, 0, 0)
startOfDay(d) == (d \div TicksPerDay) * TicksPerDay

\* viewMode 'board': three fixed buckets
statusBuckets(filtered) ==
    [k \in Status |-> SelectSeq(filtered, LAMBDA t : t.status = k)]

\* task.categoryId || 'none'
categoryKey(task) == IF Falsy(task.categoryId) THEN "none" ELSE task.categoryId[1]

\* Mutant of categoryBuckets: only the categories that hold a task get a bucket.
categoryBuckets_OmitsEmpty(filtered, cats) ==
    LET keys == {"none"} \cup {categoryKey(filtered[i]) : i \in 1..Len(filtered)}
    IN  [k \in keys |-> SelectSeq(filtered, LAMBDA t : categoryKey(t) = k)]

\* viewMode 'category': 'none', then a key per category, then a key for every
\* task whose key is not there yet
categoryBuckets(filtered, cats) ==
    LET keys == ({"none"} \cup Ids(cats))
                    \cup {categoryKey(filtered[i]) : i \in 1..Len(filtered)}
    IN  [k \in keys |-> SelectSeq(filtered, LAMBDA t : categoryKey(t) = k)]

DateKeys == {"overdue", "today", "tomorrow", "upcoming", "no-date"}

\* viewMode 'calendar': the bucket of one task, now being what new Date() read
dateKey(task, now) ==
    LET today == startOfDay(now)
        tomorrow == today + TicksPerDay
    IN  IF task.dueDate = Undefined THEN "no-date"
        ELSE LET dueDate == startOfDay(task.dueDate[1])
             IN  IF dueDate < today /\ task.status # "completed" THEN "overdue"
                 ELSE IF dueDate = today THEN "today"
                 ELSE IF dueDate = tomorrow THEN "tomorrow"
                 ELSE "upcoming"

\* Mutant of dateBuckets: the buckets are filled by tests that do not exclude
\* one another, so that an overdue task is listed under 'upcoming' as well.
dateBuckets_Overlapping(filtered, now) ==
    [k \in DateKeys |->
        SelectSeq(filtered, LAMBDA t :
            \/ dateKey(t, now) = k
            \/ k = "upcoming" /\ dateKey(t, now) = "overdue")]

dateBuckets(filtered, now) ==
    [k \in DateKeys |-> SelectSeq(filtered, LAMBDA t : dateKey(t, now) = k)]

\* const groupedTasks = useMemo(() => ...)
groupedTasks(filtered, cats, mode, now) ==
    IF mode = "board" THEN statusBuckets(filtered)
    ELSE IF mode = "category" THEN categoryBuckets(filtered, cats)
    ELSE dateBuckets(filtered, now)

ViewModes == {"board", "category", "calendar"}

\* The options of the priority select and of the category select.
PriorityOptions == {"all"} \cup Priority
CategoryFilterOptions == {"all", "none"} \cup Ids(categories)

----------------------------------------------------------------------------
\* Initial states: the application is closed. Either the browser has never
\* opened it (nothing is stored), or an earlier session has added a category
\* and two tasks and has left them in storage, or one has deleted every
\* category.

NoCall == "none"

EarlierCategories ==
    addCategory(defaultCategories, [name |-> Errands, color |-> "#000000"], uuidv4(1))

EarlierTasks ==
    addTask(
        addTask(<<>>,
                [title |-> BuyGroceries, description |-> Undefined, priority |-> "medium",
                 status |-> "todo", dueDate |-> Undefined, categoryId |-> Def(uuidv4(1))],
                uuidv4(2), 0, 0),
        [title |-> PayBills, description |-> Def(Rent), priority |-> "high",
         status |-> "completed", dueDate |-> Def(TicksPerDay), categoryId |-> Def("1")],
        uuidv4(3), 0, 0)

\* A session that has deleted every category and has kept one task.
LoneTask ==
    addTask(<<>>,
            [title |-> PayBills, description |-> Undefined, priority |-> "low",
             status |-> "in-progress", dueDate |-> Def(0), categoryId |-> Undefined],
            uuidv4(1), 0, 0)

NothingStored == [tasks |-> NullItem, categories |-> NullItem]

EarlierSessions ==
    { [storage |-> NothingStored, uuidCount |-> 0],
      [storage |-> saveEffects(NothingStored, EarlierTasks, TRUE, EarlierCategories, TRUE),
       uuidCount |-> 3],
      [storage |-> saveEffects(NothingStored, LoneTask, TRUE, <<>>, TRUE),
       uuidCount |-> 1] }

Init ==
    /\ page = "closed"
    /\ crashed = FALSE
    /\ thrown = "none"
    /\ tasks = <<>>
    /\ categories = defaultCategories
    /\ \E s \in EarlierSessions :
          /\ storage = s.storage
          /\ uuidCount = s.uuidCount
    /\ clock = 0
    /\ nOps = 0
    /\ lastCall = NoCall
    /\ searchQuery = EmptyString
    /\ filterPriority = "all"
    /\ filterCategory = "all"
    /\ viewMode = "board"
    /\ isAddDialogOpen = FALSE
    /\ editingTask = <<>>
    /\ isDialogOpen = FALSE
    /\ editingCategory = <<>>
    /\ form = <<>>
    /\ timers = 0
    /\ opener = [button |-> "none", id |-> ""]

Idle == page # "closed" /\ ~crashed

\* A UI handler ran to its end and called provider function fn.
Handled(fn) ==
    /\ nOps' = nOps + 1
    /\ lastCall' = fn
    /\ thrown' = "none"
    /\ UNCHANGED <<page, crashed, view>>

----------------------------------------------------------------------------
\* Mounting a page: <TaskProvider> renders with its initial state, then its
\* three effects run in order, then the state the load effect queued is
\* rendered and the save effects of the changed collections run again.

\* When the load effect throws, React tears the tree down. Whether the effects
\* after the throwing one still run depends on the React version (17 guards
\* each effect, 18 leaves the component's effect list), so both happen.
MountThrows(ran) ==
    /\ crashed' = TRUE
    /\ thrown' = "SyntaxError"
    /\ tasks' = <<>>
    /\ categories' = defaultCategories
    /\ storage' = IF ran
                  THEN saveEffects(storage, <<>>, TRUE, defaultCategories, TRUE)
                  ELSE storage

MountCompletes(loaded) ==
    LET afterFirstRender == saveEffects(storage, <<>>, TRUE, defaultCategories, TRUE)
        newTasks == OrElse(loaded.setTasks, <<>>)
        newCategories == OrElse(loaded.setCategories, defaultCategories)
    IN  /\ crashed' = FALSE
        /\ thrown' = "none"
        /\ tasks' = newTasks
        /\ categories' = newCategories
        /\ storage' = saveEffects(afterFirstRender,
                                  newTasks, loaded.setTasks # Undefined,
                                  newCategories, loaded.setCategories # Undefined)

Mount(p) ==
    /\ page' = p
    /\ LET loaded == loadEffect(storage)
       IN  IF loaded.threw
           THEN \E ran \in BOOLEAN : MountThrows(ran)
           ELSE MountCompletes(loaded)
    /\ lastCall' = "mount"
    /\ searchQuery' = EmptyString
    /\ filterPriority' = "all"
    /\ filterCategory' = "all"
    /\ viewMode' = "board"
    /\ isAddDialogOpen' = FALSE
    /\ editingTask' = <<>>
    /\ isDialogOpen' = FALSE
    /\ editingCategory' = <<>>
    /\ form' = <<>>
    /\ timers' = 0
    /\ opener' = [button |-> "none", id |-> ""]
    /\ UNCHANGED <<clock, uuidCount, nOps>>

\* Index: <TaskProvider><TaskManager /></TaskProvider>
MountIndex == Mount("index")

\* Categories: <TaskProvider><CategoryManager /></TaskProvider>
MountCategories == Mount("categories")

\* The tab is closed: the provider and its state are gone, storage stays.
CloseTab ==
    /\ page # "closed"
    /\ page' = "closed"
    /\ crashed' = FALSE
    /\ thrown' = "none"
    /\ tasks' = <<>>
    /\ categories' = defaultCategories
    /\ lastCall' = NoCall
    /\ searchQuery' = EmptyString
    /\ filterPriority' = "all"
    /\ filterCategory' = "all"
    /\ viewMode' = "board"
    /\ isAddDialogOpen' = FALSE
    /\ editingTask' = <<>>
    /\ isDialogOpen' = FALSE
    /\ editingCategory' = <<>>
    /\ form' = <<>>
    /\ timers' = 0
    /\ opener' = [button |-> "none", id |-> ""]
    /\ UNCHANGED <<storage, clock, uuidCount, nOps>>

\* While the application is closed something else rewrites one of its keys
\* with a text that is no JSON.
CorruptStorage ==
    /\ UNCHANGED dialog
    /\ page = "closed"
    /\ \E k \in {"tasks", "categories"} :
          /\ storage[k] # MalformedItem
          /\ storage' = [storage EXCEPT ![k] = MalformedItem]
    /\ UNCHANGED <<page, crashed, thrown, tasks, categories, clock, uuidCount,
                   nOps, lastCall, view>>

\* Time passes between two events.
Tick ==
    /\ UNCHANGED dialog
    /\ nOps < MaxOps
    /\ clock' = clock + 1
    /\ nOps' = nOps + 1
    /\ UNCHANGED <<page, crashed, thrown, provider, uuidCount, lastCall, view>>

----------------------------------------------------------------------------
\* The calls of the provider's functions, each with the render and the save
\* effects that follow its state update.

\* addTask(task): uuidv4(), then new Date() twice; the clock may move on
\* between the two readings.
AddTaskCall(task) ==
    /\ Handled("addTask")
    /\ \E dt \in {0, 1} :
          /\ tasks' = addTask(tasks, task, uuidv4(uuidCount + 1), clock, clock + dt)
          /\ clock' = clock + dt
    /\ uuidCount' = uuidCount + 1
    /\ categories' = categories
    /\ storage' = saveEffects(storage, tasks', TRUE, categories', FALSE)

UpdateTaskCall(id, updatedFields) ==
    /\ Handled("updateTask")
    /\ tasks' = updateTask(tasks, id, updatedFields, clock)
    /\ categories' = categories
    /\ storage' = saveEffects(storage, tasks', TRUE, categories', FALSE)
    /\ UNCHANGED <<clock, uuidCount>>

DeleteTaskCall(id) ==
    /\ Handled("deleteTask")
    /\ tasks' = deleteTask(tasks, id)
    /\ categories' = categories
    /\ storage' = saveEffects(storage, tasks', TRUE, categories', FALSE)
    /\ UNCHANGED <<clock, uuidCount>>

AddCategoryCall(category) ==
    /\ Handled("addCategory")
    /\ categories' = addCategory(categories, category, uuidv4(uuidCount + 1))
    /\ uuidCount' = uuidCount + 1
    /\ tasks' = tasks
    /\ storage' = saveEffects(storage, tasks', FALSE, categories', TRUE)
    /\ UNCHANGED clock

UpdateCategoryCall(id, updatedFields) ==
    /\ Handled("updateCategory")
    /\ categories' = updateCategory(categories, id, updatedFields)
    /\ tasks' = tasks
    /\ storage' = saveEffects(storage, tasks', FALSE, categories', TRUE)
    /\ UNCHANGED <<clock, uuidCount>>

DeleteCategoryCall(id) ==
    /\ Handled("deleteCategory")
    /\ tasks' = deleteCategoryFromTasks(tasks, id)
    /\ categories' = deleteCategoryItself(categories, id)
    /\ storage' = saveEffects(storage, tasks', TRUE, categories', TRUE)
    /\ UNCHANGED <<clock, uuidCount>>

\* A handler that returns before it calls the provider.
Declined ==
    /\ Handled("none")
    /\ UNCHANGED <<provider, clock, uuidCount>>

----------------------------------------------------------------------------
\* The UI handlers.

\* TaskForm.handleSubmit. Here the dialog around the form is not followed: the
\* form is submitted with every task prop the dialog can hand it (none, a task
\* of the collection, a task deleted since) and every content. SpecDialog
\* follows the dialog step by step.
TaskFormSubmit ==
    /\ UNCHANGED dialog
    /\ page = "index" /\ ~crashed /\ nOps < MaxOps
    /\ \E task \in TaskProps, f \in FormInputs, categoryId \in CategoryOptions :
          LET fields == [title       |-> f.title,
                         description |-> IF f.description # EmptyString
                                         THEN Def(f.description) ELSE Undefined,
                         priority    |-> f.priority,
                         status      |-> f.status,
                         dueDate     |-> f.dueDate,
                         categoryId  |-> categoryId]
          IN  IF trim(f.title) = EmptyString THEN Declined
              ELSE IF task # Undefined THEN UpdateTaskCall(task[1], fields)
              ELSE AddTaskCall(fields)

\* TaskCard.toggleStatus
nextStatus(status) ==
    IF status = "todo" THEN "in-progress"
    ELSE IF status = "in-progress" THEN "completed"
    ELSE "todo"

ToggleStatusClick ==
    /\ UNCHANGED dialog
    /\ page = "index" /\ ~crashed /\ nOps < MaxOps
    /\ \E i \in ClickPositions(Len(tasks)) :
          UpdateTaskCall(tasks[i].id, [status |-> nextStatus(tasks[i].status)])

\* TaskCard: the delete button
DeleteTaskClick ==
    /\ UNCHANGED dialog
    /\ page = "index" /\ ~crashed /\ nOps < MaxOps
    /\ \E i \in ClickPositions(Len(tasks)) : DeleteTaskCall(tasks[i].id)

\* CategoryForm.handleSubmit
CategoryFormSubmit ==
    /\ UNCHANGED dialog
    /\ page = "categories" /\ ~crashed /\ nOps < MaxOps
    /\ \E category \in CategoryProps, f \in CategoryFormInputs :
          IF trim(f.name) = EmptyString THEN Declined
          ELSE IF category # Undefined
               THEN UpdateCategoryCall(category[1], [name |-> f.name, color |-> f.color])
               ELSE AddCategoryCall([name |-> f.name, color |-> f.color])

\* CategoryManager: the delete button
DeleteCategoryClick ==
    /\ UNCHANGED dialog
    /\ page = "categories" /\ ~crashed /\ nOps < MaxOps
    /\ \E i \in ClickPositions(Len(categories)) : DeleteCategoryCall(categories[i].id)

Next ==
    \/ MountIndex
    \/ MountCategories
    \/ CloseTab
    \/ CorruptStorage
    \/ Tick
    \/ TaskFormSubmit
    \/ ToggleStatusClick
    \/ DeleteTaskClick
    \/ CategoryFormSubmit
    \/ DeleteCategoryClick

Spec == Init /\ [][Next]_vars

----------------------------------------------------------------------------
\* The provider's six functions called directly with any identifier and any
\* patch, as a caller of useTaskContext() may.

ApiIds == Ids(tasks) \cup Ids(categories) \cup KnownIds

ApiTasks ==
    { [title |-> BuyGroceries, description |-> Undefined, priority |-> "medium",
       status |-> "todo", dueDate |-> Undefined, categoryId |-> Undefined],
      [title |-> PayBills, description |-> Def(Rent), priority |-> "low",
       status |-> "in-progress", dueDate |-> Def(TicksPerDay), categoryId |-> Def("2")] }

\* Partial<Task> values: the fields a patch names and their new values.
ApiPatches ==
    { [status |-> "completed"],
      [title |-> PayBills, priority |-> "high"],
      [description |-> Undefined, dueDate |-> Def(0)],
      [categoryId |-> Undefined],
      [categoryId |-> Def("2"), description |-> Def(Rent)],
      [id |-> "renamed", title |-> BuyGroceries] }

ApiCategoryPatches ==
    { [name |-> Errands], [color |-> "#000000"], [name |-> Errands, color |-> "#8b5cf6"] }

ApiAddTask ==
    /\ UNCHANGED dialog
    /\ Idle /\ nOps < MaxOps
    /\ \E task \in ApiTasks : AddTaskCall(task)

ApiUpdateTask ==
    /\ UNCHANGED dialog
    /\ Idle /\ nOps < MaxOps
    /\ \E id \in ApiIds, updatedFields \in ApiPatches : UpdateTaskCall(id, updatedFields)

ApiDeleteTask ==
    /\ UNCHANGED dialog
    /\ Idle /\ nOps < MaxOps
    /\ \E id \in ApiIds : DeleteTaskCall(id)

ApiAddCategory ==
    /\ UNCHANGED dialog
    /\ Idle /\ nOps < MaxOps
    /\ AddCategoryCall([name |-> Errands, color |-> "#3b82f6"])

ApiUpdateCategory ==
    /\ UNCHANGED dialog
    /\ Idle /\ nOps < MaxOps
    /\ \E id \in ApiIds, updatedFields \in ApiCategoryPatches :
          UpdateCategoryCall(id, updatedFields)

ApiDeleteCategory ==
    /\ UNCHANGED dialog
    /\ Idle /\ nOps < MaxOps
    /\ \E id \in ApiIds : DeleteCategoryCall(id)

NextApi ==
    \/ MountIndex
    \/ Tick
    \/ ApiAddTask
    \/ ApiUpdateTask
    \/ ApiDeleteTask
    \/ ApiAddCategory
    \/ ApiUpdateCategory
    \/ ApiDeleteCategory

SpecApi == Init /\ [][NextApi]_vars

----------------------------------------------------------------------------
\* The derived view as a function of its inputs: the task page is mounted over
\* a collection drawn from samples, and the search box, the two selects and
\* the view tabs are set to each of their values.

Groceries == <<"G","R","O","C","E","R","I","E","S">>

\* Three tasks whose letters differ in case from those of the other samples:
\* 'GROCERIES' without category, 'Pay bills' described as 'Buy groceries', and
\* 'rent'.
ShoutedTasks ==
    addTask(
        addTask(
            addTask(<<>>,
                    [title |-> Groceries, description |-> Undefined, priority |-> "high",
                     status |-> "todo", dueDate |-> Def(0), categoryId |-> Undefined],
                    uuidv4(1), 0, 0),
            [title |-> PayBills, description |-> Def(BuyGroceries), priority |-> "low",
             status |-> "todo", dueDate |-> Undefined, categoryId |-> Def("2")],
            uuidv4(2), 0, 0),
        [title |-> Rent, description |-> Def(EmptyString), priority |-> "high",
         status |-> "completed", dueDate |-> Def(TicksPerDay), categoryId |-> Def("2")],
        uuidv4(3), 0, 0)

\* A task due on the given day, added at the end of the collection.
addDue(prevTasks, n, status, day) ==
    addTask(prevTasks,
            [title |-> PayBills, description |-> Undefined, priority |-> "medium",
             status |-> status, dueDate |-> Def(day * TicksPerDay + 1),
             categoryId |-> Undefined],
            uuidv4(n), 0, 0)

\* Tasks due on the first four days of the clock, one of the first day's done.
\* The last sample of ViewSamples holds a task whose category is not there.
DueTasks ==
    addDue(addDue(addDue(addDue(addDue(<<>>, 1, "todo", 0), 2, "completed", 0),
                         3, "in-progress", 1), 4, "todo", 2), 5, "completed", 3)

ViewSamples ==
    { [tasks |-> <<>>, categories |-> defaultCategories],
      [tasks |-> EarlierTasks, categories |-> EarlierCategories],
      [tasks |-> LoneTask, categories |-> <<>>],
      [tasks |-> ShoutedTasks, categories |-> defaultCategories],
      [tasks |-> DueTasks, categories |-> defaultCategories],
      [tasks |-> EarlierTasks, categories |-> defaultCategories] }

\* What is typed into the search box.
SearchTexts ==
    { EmptyString,
      toLowerCase(Groceries),
      <<"B","U","Y">>,
      Rent,
      <<"s"," ","g">>,
      <<"z">> }

InitView ==
    /\ page = "index"
    /\ crashed = FALSE
    /\ thrown = "none"
    /\ \E s \in ViewSamples :
          /\ tasks = s.tasks
          /\ categories = s.categories
          /\ storage = saveEffects(NothingStored, s.tasks, TRUE, s.categories, TRUE)
    /\ clock = 0
    /\ uuidCount = 5
    /\ nOps = 0
    /\ lastCall = "mount"
    /\ searchQuery = EmptyString
    /\ filterPriority = "all"
    /\ filterCategory = "all"
    /\ viewMode = "board"
    /\ isAddDialogOpen = FALSE
    /\ editingTask = <<>>
    /\ isDialogOpen = FALSE
    /\ editingCategory = <<>>
    /\ form = <<>>
    /\ timers = 0
    /\ opener = [button |-> "none", id |-> ""]

\* onChange={(e) => setSearchQuery(e.target.value)}, onClick={() => setSearchQuery('')}
SetSearchQuery ==
    /\ UNCHANGED dialog
    /\ Idle
    /\ page = "index"
    /\ \E text \in SearchTexts : searchQuery' = text
    /\ UNCHANGED <<page, crashed, thrown, provider, clock, uuidCount, nOps, lastCall,
                   filterPriority, filterCategory, viewMode>>

\* onChange={(e) => setFilterPriority(e.target.value)}
SetFilterPriority ==
    /\ UNCHANGED dialog
    /\ Idle
    /\ page = "index"
    /\ \E option \in PriorityOptions : filterPriority' = option
    /\ UNCHANGED <<page, crashed, thrown, provider, clock, uuidCount, nOps, lastCall,
                   searchQuery, filterCategory, viewMode>>

\* onChange={(e) => setFilterCategory(e.target.value)}
SetFilterCategory ==
    /\ UNCHANGED dialog
    /\ Idle
    /\ page = "index"
    /\ \E option \in CategoryFilterOptions : filterCategory' = option
    /\ UNCHANGED <<page, crashed, thrown, provider, clock, uuidCount, nOps, lastCall,
                   searchQuery, filterPriority, viewMode>>

\* <Tabs value={viewMode} onValueChange={(v) => setViewMode(v as any)}>
SetViewMode ==
    /\ UNCHANGED dialog
    /\ Idle
    /\ page = "index"
    /\ \E v \in ViewModes : viewMode' = v
    /\ UNCHANGED <<page, crashed, thrown, provider, clock, uuidCount, nOps, lastCall,
                   searchQuery, filterPriority, filterCategory>>

NextView ==
    \/ SetSearchQuery
    \/ SetFilterPriority
    \/ SetFilterCategory
    \/ SetViewMode
    \/ Tick

SpecView == InitView /\ [][NextView]_vars

----------------------------------------------------------------------------
\* The dialogs of the two pages: the open flag, the item being edited, the
\* form mounted inside the open dialog, and the delayed reset.

MaxDialogOps == 5    \* clicks and submissions in one behaviour of SpecDialog

NotOpened == [button |-> "none", id |-> ""]

\* TaskForm: the initial values of its state, taken from the task prop when
\* the form mounts
initialTaskForm(task) ==
    [title       |-> IF task # Undefined THEN task[1].title ELSE EmptyString,
     description |-> IF task # Undefined /\ task[1].description # Undefined
                     THEN task[1].description[1] ELSE EmptyString,
     priority    |-> IF task # Undefined THEN task[1].priority ELSE "medium",
     status      |-> IF task # Undefined THEN task[1].status ELSE "todo",
     dueDate     |-> IF task # Undefined THEN task[1].dueDate ELSE Undefined,
     categoryId  |-> IF task # Undefined THEN task[1].categoryId ELSE Undefined]

\* What the form holds when it is submitted: what it was mounted with, or what
\* the user typed over it.
TypedInto(f) ==
    {f} \cup {[title |-> t.title, description |-> t.description, priority |-> t.priority,
               status |-> t.status, dueDate |-> t.dueDate, categoryId |-> f.categoryId]
                 : t \in FormInputs}

\* The 'Add Task' button: onClick={() => setIsAddDialogOpen(true)}
AddTaskClick ==
    /\ Idle /\ page = "index" /\ nOps < MaxDialogOps
    /\ ~isAddDialogOpen
    /\ isAddDialogOpen' = TRUE
    /\ form' = Def(initialTaskForm(editingTask))
    /\ opener' = [button |-> "add", id |-> ""]
    /\ nOps' = nOps + 1
    /\ UNCHANGED <<page, crashed, thrown, provider, clock, uuidCount, lastCall, view,
                   editingTask, isDialogOpen, editingCategory, timers>>

\* The edit button of a card: onEdit(task), which is handleEditTask
handleEditTask(task) ==
    /\ editingTask' = Def(task)
    /\ isAddDialogOpen' = TRUE
    /\ form' = Def(initialTaskForm(Def(task)))

EditTaskClick ==
    /\ Idle /\ page = "index" /\ nOps < MaxDialogOps
    /\ ~isAddDialogOpen
    /\ \E i \in ClickPositions(Len(tasks)) :
          /\ handleEditTask(tasks[i])
          /\ opener' = [button |-> "edit", id |-> tasks[i].id]
    /\ nOps' = nOps + 1
    /\ UNCHANGED <<page, crashed, thrown, provider, clock, uuidCount, lastCall, view,
                   isDialogOpen, editingCategory, timers>>

\* The dialog's own close control (close button, Escape, click outside):
\* onOpenChange={setIsAddDialogOpen}
DismissTaskDialog ==
    /\ Idle /\ page = "index" /\ nOps < MaxDialogOps
    /\ isAddDialogOpen
    /\ isAddDialogOpen' = FALSE
    /\ form' = Undefined
    /\ nOps' = nOps + 1
    /\ UNCHANGED <<page, crashed, thrown, provider, clock, uuidCount, lastCall, view,
                   editingTask, isDialogOpen, editingCategory, timers, opener>>

\* TaskManager.handleCloseDialog
handleCloseDialog ==
    /\ isAddDialogOpen' = FALSE
    /\ form' = Undefined
    /\ timers' = timers + 1

\* The form's Cancel button: onCancel, which is handleCloseDialog
CancelTaskForm ==
    /\ Idle /\ page = "index" /\ nOps < MaxDialogOps
    /\ isAddDialogOpen
    /\ handleCloseDialog
    /\ nOps' = nOps + 1
    /\ UNCHANGED <<page, crashed, thrown, provider, clock, uuidCount, lastCall, view,
                   editingTask, isDialogOpen, editingCategory, opener>>

\* TaskForm.handleSubmit inside the dialog: the task prop is editingTask as it
\* stands when the form is submitted, the fields are the form's state.
SubmitTaskFormWith(f) ==
    LET fields == [title       |-> f.title,
                   description |-> IF f.description # EmptyString
                                   THEN Def(f.description) ELSE Undefined,
                   priority    |-> f.priority,
                   status      |-> f.status,
                   dueDate     |-> f.dueDate,
                   categoryId  |-> f.categoryId]
    IN  IF trim(f.title) = EmptyString
        THEN Declined /\ UNCHANGED dialog
        ELSE /\ IF editingTask # Undefined
                THEN UpdateTaskCall(editingTask[1].id, fields)
                ELSE AddTaskCall(fields)
             /\ handleCloseDialog
             /\ UNCHANGED <<editingTask, isDialogOpen, editingCategory, opener>>

SubmitTaskForm ==
    /\ Idle /\ page = "index" /\ nOps < MaxDialogOps
    /\ isAddDialogOpen
    /\ \E f \in TypedInto(form[1]) : SubmitTaskFormWith(f)

\* A card's delete button, reachable while no dialog covers the page.
DeleteCardClick ==
    /\ Idle /\ page = "index" /\ nOps < MaxDialogOps
    /\ ~isAddDialogOpen
    /\ \E i \in ClickPositions(Len(tasks)) : DeleteTaskCall(tasks[i].id)
    /\ UNCHANGED dialog

\* setTimeout(() => setEditingTask(undefined), 300) comes due
ResetEditingTask ==
    /\ Idle /\ page = "index"
    /\ timers > 0
    /\ timers' = timers - 1
    /\ editingTask' = Undefined
    /\ UNCHANGED <<page, crashed, thrown, provider, clock, uuidCount, nOps, lastCall, view,
                   isAddDialogOpen, isDialogOpen, editingCategory, form, opener>>

\* CategoryForm: the initial values of its state
initialCategoryForm(category) ==
    [name  |-> IF category # Undefined THEN category[1].name ELSE EmptyString,
     color |-> IF category # Undefined THEN category[1].color ELSE "#3b82f6"]

CategoryTypedInto(f) == {f} \cup CategoryFormInputs

\* The 'Add Category' buttons: onClick={() => setIsDialogOpen(true)}
AddCategoryClick ==
    /\ Idle /\ page = "categories" /\ nOps < MaxDialogOps
    /\ ~isDialogOpen
    /\ isDialogOpen' = TRUE
    /\ form' = Def(initialCategoryForm(editingCategory))
    /\ opener' = [button |-> "add", id |-> ""]
    /\ nOps' = nOps + 1
    /\ UNCHANGED <<page, crashed, thrown, provider, clock, uuidCount, lastCall, view,
                   isAddDialogOpen, editingTask, editingCategory, timers>>

\* CategoryManager.handleEditCategory
handleEditCategory(category) ==
    /\ editingCategory' = Def(category)
    /\ isDialogOpen' = TRUE
    /\ form' = Def(initialCategoryForm(Def(category)))

EditCategoryClick ==
    /\ Idle /\ page = "categories" /\ nOps < MaxDialogOps
    /\ ~isDialogOpen
    /\ \E i \in ClickPositions(Len(categories)) :
          /\ handleEditCategory(categories[i])
          /\ opener' = [button |-> "edit", id |-> categories[i].id]
    /\ nOps' = nOps + 1
    /\ UNCHANGED <<page, crashed, thrown, provider, clock, uuidCount, lastCall, view,
                   isAddDialogOpen, editingTask, timers>>

\* onOpenChange={setIsDialogOpen}
DismissCategoryDialog ==
    /\ Idle /\ page = "categories" /\ nOps < MaxDialogOps
    /\ isDialogOpen
    /\ isDialogOpen' = FALSE
    /\ form' = Undefined
    /\ nOps' = nOps + 1
    /\ UNCHANGED <<page, crashed, thrown, provider, clock, uuidCount, lastCall, view,
                   isAddDialogOpen, editingTask, editingCategory, timers, opener>>

\* CategoryManager.handleCloseDialog
handleCloseCategoryDialog ==
    /\ isDialogOpen' = FALSE
    /\ form' = Undefined
    /\ timers' = timers + 1

CancelCategoryForm ==
    /\ Idle /\ page = "categories" /\ nOps < MaxDialogOps
    /\ isDialogOpen
    /\ handleCloseCategoryDialog
    /\ nOps' = nOps + 1
    /\ UNCHANGED <<page, crashed, thrown, provider, clock, uuidCount, lastCall, view,
                   isAddDialogOpen, editingTask, editingCategory, opener>>

\* CategoryForm.handleSubmit inside the dialog
SubmitCategoryFormWith(f) ==
    IF trim(f.name) = EmptyString
    THEN Declined /\ UNCHANGED dialog
    ELSE /\ IF editingCategory # Undefined
            THEN UpdateCategoryCall(editingCategory[1].id, [name |-> f.name, color |-> f.color])
            ELSE AddCategoryCall([name |-> f.name, color |-> f.color])
         /\ handleCloseCategoryDialog
         /\ UNCHANGED <<isAddDialogOpen, editingTask, editingCategory, opener>>

SubmitCategoryForm ==
    /\ Idle /\ page = "categories" /\ nOps < MaxDialogOps
    /\ isDialogOpen
    /\ \E f \in CategoryTypedInto(form[1]) : SubmitCategoryFormWith(f)

\* setTimeout(() => setEditingCategory(undefined), 300) comes due
ResetEditingCategory ==
    /\ Idle /\ page = "categories"
    /\ timers > 0
    /\ timers' = timers - 1
    /\ editingCategory' = Undefined
    /\ UNCHANGED <<page, crashed, thrown, provider, clock, uuidCount, nOps, lastCall, view,
                   isAddDialogOpen, editingTask, isDialogOpen, form, opener>>

\* One of the two pages is mounted over what an earlier session stored.
InitDialog ==
    /\ page \in {"index", "categories"}
    /\ crashed = FALSE
    /\ thrown = "none"
    /\ \E s \in { [tasks |-> EarlierTasks, categories |-> EarlierCategories],
                  [tasks |-> LoneTask, categories |-> <<>>] } :
          /\ tasks = s.tasks
          /\ categories = s.categories
          /\ storage = saveEffects(NothingStored, s.tasks, TRUE, s.categories, TRUE)
    /\ clock = 0
    /\ uuidCount = 3
    /\ nOps = 0
    /\ lastCall = "mount"
    /\ searchQuery = EmptyString
    /\ filterPriority = "all"
    /\ filterCategory = "all"
    /\ viewMode = "board"
    /\ isAddDialogOpen = FALSE
    /\ editingTask = Undefined
    /\ isDialogOpen = FALSE
    /\ editingCategory = Undefined
    /\ form = Undefined
    /\ timers = 0
    /\ opener = NotOpened

NextDialog ==
    \/ AddTaskClick
    \/ EditTaskClick
    \/ DismissTaskDialog
    \/ CancelTaskForm
    \/ SubmitTaskForm
    \/ DeleteCardClick
    \/ ResetEditingTask
    \/ AddCategoryClick
    \/ EditCategoryClick
    \/ DismissCategoryDialog
    \/ CancelCategoryForm
    \/ SubmitCategoryForm
    \/ ResetEditingCategory

SpecDialog == InitDialog /\ [][NextDialog]_vars

----------------------------------------------------------------------------
\* Claims.

Last(seq) == seq[Len(seq)]

Unique(coll) == \A i, j \in 1..Len(coll) : coll[i].id = coll[j].id => i = j

\* C1: after any sequence of the UI's addTask, updateTask, deleteTask,
\* addCategory, updateCategory and deleteCategory calls, no two tasks share an
\* identifier and no two categories share an identifier.
C1_UniqueIdentifiers == Unique(tasks) /\ Unique(categories)

\* A third task was added on the task page and a sixth category on the
\* category page.
C1_Witness ==
    /\ Idle
    /\ lastCall = "addCategory"
    /\ Len(tasks) = 3
    /\ Len(categories) = 6

\* C2: a task appended by addTask enters the collection with its creation
\* timestamp equal to its update timestamp.
C2_EqualTimestampsOnAdd ==
    lastCall = "addTask" => Last(tasks).createdAt = Last(tasks).updatedAt

\* C3: for every patch p (a Partial<Task>, which may name any field of a
\* task), updateTask(t.id, p) for a task t of the collection keeps the length, the
\* position and the identifier, gives every field p names p's value, keeps every
\* other field but updatedAt, sets updatedAt to the clock reading, which is not
\* earlier than the previous one, and changes no other task and no category.
C3_Post(i, p) ==
    /\ Len(tasks') = Len(tasks)
    /\ tasks'[i].id = tasks[i].id
    /\ \A k \in DOMAIN p : tasks'[i][k] = p[k]
    /\ \A k \in TaskFields \ (DOMAIN p \cup {"updatedAt"}) : tasks'[i][k] = tasks[i][k]
    /\ tasks'[i].updatedAt = clock
    /\ tasks'[i].updatedAt >= tasks[i].updatedAt
    /\ \A j \in 1..Len(tasks) : j # i => tasks'[j] = tasks[j]
    /\ categories' = categories

C3_UpdateTaskFrame ==
    [][\A i \in 1..Len(tasks), p \in ApiPatches :
          UpdateTaskCall(tasks[i].id, p) => C3_Post(i, p)]_vars

\* An update has moved a task's update timestamp past its creation timestamp
\* while another task is in the collection.
C3_Witness ==
    /\ lastCall = "updateTask"
    /\ Len(tasks) >= 2
    /\ \E i \in 1..Len(tasks) : tasks[i].updatedAt > tasks[i].createdAt

\* C4: after deleteCategory(c) no task has categoryId c and no category has
\* identifier c; the number of tasks is unchanged, the tasks that did not
\* reference c are unchanged, and those that did differ only in categoryId.
C4_Post(c) ==
    /\ \A i \in 1..Len(tasks') : tasks'[i].categoryId # Def(c)
    /\ c \notin Ids(categories')
    /\ Len(tasks') = Len(tasks)
    /\ \A i \in 1..Len(tasks) :
          IF tasks[i].categoryId # Def(c)
          THEN tasks'[i] = tasks[i]
          ELSE \A k \in TaskFields \ {"categoryId"} : tasks'[i][k] = tasks[i][k]

C4_DeleteCategoryClears ==
    [][\A c \in ApiIds : DeleteCategoryCall(c) => C4_Post(c)]_vars

\* Category "1" was deleted: the task that referenced it has lost its
\* categoryId, the other task still has its own.
C4_Witness ==
    /\ lastCall = "deleteCategory"
    /\ nOps = 1
    /\ "1" \notin Ids(categories)
    /\ Len(tasks) = 2
    /\ tasks[1].categoryId # Undefined
    /\ tasks[2].categoryId = Undefined

\* C5 (as claimed): with no task (category) of the given identifier,
\* deleteTask, updateTask, updateCategory and deleteCategory leave both
\* collections unchanged and raise no error.
C5_Unchanged == tasks' = tasks /\ categories' = categories /\ thrown' = "none"

C5_AbsentIdChangesNothing ==
    [][\A id \in ApiIds :
          /\ ( /\ id \notin Ids(tasks)
               /\ \/ DeleteTaskCall(id)
                  \/ \E p \in ApiPatches : UpdateTaskCall(id, p) )
             => C5_Unchanged
          /\ ( /\ id \notin Ids(categories)
               /\ \/ DeleteCategoryCall(id)
                  \/ \E p \in ApiCategoryPatches : UpdateCategoryCall(id, p) )
             => C5_Unchanged]_vars

\* C5 (amended): deleteCategory of an identifier no category has still clears
\* the categoryId of the tasks that carry that identifier; everything else is
\* as claimed.
C5_AbsentIdAmended ==
    [][\A id \in ApiIds :
          /\ ( /\ id \notin Ids(tasks)
               /\ \/ DeleteTaskCall(id)
                  \/ \E p \in ApiPatches : UpdateTaskCall(id, p) )
             => C5_Unchanged
          /\ ( /\ id \notin Ids(categories)
               /\ \E p \in ApiCategoryPatches : UpdateCategoryCall(id, p) )
             => C5_Unchanged
          /\ ( /\ id \notin Ids(categories)
               /\ DeleteCategoryCall(id) )
             => /\ categories' = categories
                /\ thrown' = "none"
                /\ Len(tasks') = Len(tasks)
                /\ \A i \in 1..Len(tasks) :
                      IF tasks[i].categoryId = Def(id)
                      THEN tasks'[i] = [tasks[i] EXCEPT !.categoryId = Undefined]
                      ELSE tasks'[i] = tasks[i]]_vars

\* The one call made since the two stored tasks were loaded was deleteTask,
\* and both tasks are still there: its identifier matched none.
C5_Witness ==
    /\ lastCall = "deleteTask"
    /\ nOps = 1
    /\ tasks = EarlierTasks

\* C6: whenever the provider is mounted and idle, the item under 'tasks' is the
\* serialization of the tasks in memory and the item under 'categories' that
\* of the categories in memory.
C6_StorageAgreesWithMemory ==
    Idle => /\ storage.tasks = stringifyTasks(tasks)
            /\ storage.categories = stringifyCategories(categories)

\* A category that a task referenced was deleted: both collections changed in
\* one handler.
C6_Witness ==
    /\ Idle
    /\ lastCall = "deleteCategory"
    /\ Len(categories) = 4
    /\ Len(tasks) = 2
    /\ \E i \in 1..2 : tasks[i].categoryId = Undefined

\* C7: a provider that mounts over collections an earlier provider wrote ends
\* its mount with storage as it found it and, when it replaces a provider that
\* was idle until then, with the same tasks and categories in memory, field by
\* field, dates included.
C7_ReloadRoundTrip ==
    [][ ( /\ MountIndex \/ MountCategories
          /\ storage.tasks.kind = "json"
          /\ storage.categories.kind = "json" )
        => /\ ~crashed'
           /\ storage' = storage
           /\ stringifyTasks(tasks') = storage.tasks
           /\ stringifyCategories(categories') = storage.categories
           /\ Idle => /\ Len(tasks') = Len(tasks)
                      /\ \A i \in 1..Len(tasks) :
                            \A k \in TaskFields : tasks'[i][k] = tasks[i][k]
                      /\ categories' = categories ]_vars

\* The category page was mounted over an empty list of categories and three
\* tasks, one of them created at an odd clock reading and one with a due date.
C7_Witness ==
    /\ Idle
    /\ page = "categories"
    /\ lastCall = "mount"
    /\ categories = <<>>
    /\ storage.categories = JsonItem(<<>>)
    /\ Len(tasks) = 3
    /\ \E i \in 1..3 : tasks[i].createdAt % TicksPerDay # 0
    /\ \E i \in 1..3 : tasks[i].dueDate # Undefined

\* The same over an empty list of tasks.
C7_WitnessNoTasks ==
    /\ Idle
    /\ lastCall = "mount"
    /\ tasks = <<>>
    /\ storage.tasks = JsonItem(<<>>)
    /\ nOps > 0

\* C8 (as claimed): a mount over a missing or malformed item completes without
\* an error, with no tasks (the default categories) for that key, and leaves
\* the other key's valid collection loaded and stored.
C8_MountToleratesBadItems ==
    [][ (MountIndex \/ MountCategories)
        => /\ thrown' = "none" /\ ~crashed'
           /\ storage.tasks.kind # "json" => tasks' = <<>>
           /\ storage.categories.kind # "json" => categories' = defaultCategories
           /\ storage.tasks.kind = "json"
                => /\ storage'.tasks = storage.tasks
                   /\ stringifyTasks(tasks') = storage.tasks
           /\ storage.categories.kind = "json"
                => /\ storage'.categories = storage.categories
                   /\ stringifyCategories(categories') = storage.categories ]_vars

----------------------------------------------------------------------------
\* Two characters are the same letter, whatever their case.
SameLetter(a, b) ==
    a = b \/ \E k \in 1..Len(UpperChars) : {a, b} = {UpperChars[k], LowerChars[k]}

\* text occurs in s, case-insensitively, at some position.
OccursIn(text, s) ==
    \E i \in 0..(Len(s) - Len(text)) :
        \A j \in 1..Len(text) : SameLetter(s[i + j], text[j])

\* The three predicates of the filter, as the specification words them.
Selected(task) ==
    /\ \/ searchQuery = EmptyString
       \/ OccursIn(searchQuery, task.title)
       \/ task.description # Undefined /\ OccursIn(searchQuery, task.description[1])
    /\ filterPriority = "all" \/ filterPriority = task.priority
    /\ \/ filterCategory = "all"
       \/ filterCategory = "none" /\ task.categoryId = Undefined
       \/ task.categoryId # Undefined /\ task.categoryId[1] = filterCategory

SelectedPositions == {i \in 1..Len(tasks) : Selected(tasks[i])}

\* The k-th selected position, counted from the front of the collection.
NthSelected(k) ==
    CHOOSE i \in SelectedPositions : Cardinality({j \in SelectedPositions : j < i}) = k - 1

Shown == filteredTasks(tasks, searchQuery, filterPriority, filterCategory)

\* C9: for every task collection, search text, priority filter and category
\* filter, the filtered sequence is exactly the tasks, in collection order, that
\* satisfy the three predicates (text empty or occurring case-insensitively in
\* title or description; priority 'all' or equal; category 'all', 'none' for a
\* task without category, or equal to the task's categoryId).
C9_FilteredExactly ==
    /\ Len(Shown) = Cardinality(SelectedPositions)
    /\ \A k \in 1..Len(Shown) : Shown[k] = tasks[NthSelected(k)]

\* 'groceries' over 'Buy groceries' and 'Pay bills' shows exactly the first.
C9_Witness ==
    /\ tasks = EarlierTasks
    /\ searchQuery = toLowerCase(Groceries)
    /\ filterPriority = "all"
    /\ filterCategory = "all"
    /\ Shown = <<tasks[1]>>
    /\ tasks[1].title = BuyGroceries

\* A search text typed in capitals finds a title written in small letters.
C9_WitnessCapitals ==
    /\ tasks = EarlierTasks
    /\ searchQuery = <<"B","U","Y">>
    /\ filterPriority = "medium"
    /\ filterCategory = uuidv4(1)
    /\ Shown = <<tasks[1]>>

\* What is typed into the search box while the buckets are looked at: nothing,
\* or a text that few tasks hold.
BucketTexts == {EmptyString, PayBills}

CategoryView(query, priority, category) ==
    groupedTasks(filteredTasks(tasks, query, priority, category), categories, "category", clock)

\* C10: in category view mode, in every reachable state of tasks and categories
\* and for every filter setting, the buckets are exactly one per existing
\* category plus the uncategorized bucket 'none': a category without task has
\* its bucket, and nothing else has one.
C10_CategoryBuckets ==
    (Idle /\ page = "index")
        => \A query \in BucketTexts, priority \in PriorityOptions,
              category \in CategoryFilterOptions :
                DOMAIN CategoryView(query, priority, category) = {"none"} \cup Ids(categories)

\* The task page after a category that a task referred to was deleted on the
\* category page: in category mode the task is uncategorized, and the
\* categories without a task keep their bucket.
C10_Witness ==
    /\ Idle
    /\ page = "index"
    /\ nOps > 0
    /\ Len(categories) = 4
    /\ Len(tasks) = 2
    /\ tasks[1].categoryId = Undefined
    /\ LET all == CategoryView(EmptyString, "all", "all")
       IN  /\ Len(all["none"]) = 1
           /\ Len(all["1"]) = 1
           /\ all["2"] = <<>>
           /\ CategoryView(PayBills, "all", "all")["none"] = <<>>

----------------------------------------------------------------------------
\* The task refers to a category that does not exist.
Dangling(task) ==
    task.categoryId # Undefined /\ task.categoryId[1] \notin Ids(categories)

\* C11: a task whose categoryId identifies no existing category is treated as
\* uncategorized: in category view mode it is in the 'none' bucket, and the
\* category filter 'none' selects it.
C11_DanglingIsUncategorized ==
    (Idle /\ page = "index")
        => \A i \in 1..Len(tasks) :
              Dangling(tasks[i])
                  => /\ tasks[i] \in Range(CategoryView(EmptyString, "all", "all")["none"])
                     /\ tasks[i] \in Range(filteredTasks(tasks, EmptyString, "all", "none"))

----------------------------------------------------------------------------
\* The calendar day of a date, and the day the clock shows.
DayOf(d) == d \div TicksPerDay
Today == DayOf(clock)

\* The buckets of the task page as its controls stand.
Grouped == groupedTasks(Shown, categories, viewMode, clock)

InBucket(task, key) == task \in Range(Grouped[key])

\* C12: in date view mode a filtered task is in the 'overdue' bucket if and only
\* if it has a due date whose calendar day is before today and its status is
\* not 'completed'.
C12_OverdueExactly ==
    (Idle /\ page = "index" /\ viewMode = "calendar")
        => \A i \in 1..Len(Shown) :
              InBucket(Shown[i], "overdue")
                  <=> /\ Shown[i].dueDate # Undefined
                      /\ DayOf(Shown[i].dueDate[1]) < Today
                      /\ Shown[i].status # "completed"

\* Date mode on the second day: of the two tasks due the day before, the one
\* to do is overdue and the completed one is not.
C12_Witness ==
    /\ Idle /\ page = "index" /\ viewMode = "calendar"
    /\ tasks = DueTasks
    /\ Shown = tasks
    /\ Today = 1
    /\ DayOf(tasks[1].dueDate[1]) = 0 /\ tasks[1].status = "todo"
    /\ DayOf(tasks[2].dueDate[1]) = 0 /\ tasks[2].status = "completed"
    /\ InBucket(tasks[1], "overdue")
    /\ ~InBucket(tasks[2], "overdue")

\* C13: in date view mode the 'upcoming' bucket contains exactly the filtered
\* tasks whose due date falls on a calendar day later than tomorrow; whatever
\* its status, no task due today, tomorrow or in the past is in 'upcoming'.
C13_UpcomingExactly ==
    (Idle /\ page = "index" /\ viewMode = "calendar")
        => \A i \in 1..Len(Shown) :
              InBucket(Shown[i], "upcoming")
                  <=> /\ Shown[i].dueDate # Undefined
                      /\ DayOf(Shown[i].dueDate[1]) > Today + 1

----------------------------------------------------------------------------
\* The sizes of the buckets under the given keys, added up.
RECURSIVE SizeOf(_)
SizeOf(keys) ==
    IF keys = {} THEN 0
    ELSE LET k == CHOOSE x \in keys : TRUE
         IN  Len(Grouped[k]) + SizeOf(keys \ {k})

\* C15: in every view mode the buckets partition the filtered sequence: every
\* filtered task is in exactly one bucket, no bucket holds a task that is not
\* filtered, the sizes add up to the number of filtered tasks, and in status
\* mode the buckets are always todo, in-progress and completed.
C15_BucketsPartition ==
    (Idle /\ page = "index")
        => /\ \A i \in 1..Len(Shown) :
                 Cardinality({k \in DOMAIN Grouped : InBucket(Shown[i], k)}) = 1
           /\ \A k \in DOMAIN Grouped : Range(Grouped[k]) \subseteq Range(Shown)
           /\ SizeOf(DOMAIN Grouped) = Len(Shown)
           /\ viewMode = "board" => DOMAIN Grouped = {"todo", "in-progress", "completed"}

\* Status mode over tasks of statuses todo, todo, completed: sizes 2, 0, 1.
C15_Witness ==
    /\ Idle /\ page = "index" /\ viewMode = "board"
    /\ tasks = ShoutedTasks
    /\ Shown = tasks
    /\ <<tasks[1].status, tasks[2].status, tasks[3].status>> = <<"todo", "todo", "completed">>
    /\ Len(Grouped["todo"]) = 2
    /\ Len(Grouped["in-progress"]) = 0
    /\ Len(Grouped["completed"]) = 1

\* Category mode over a task that refers to no category, and date mode over
\* tasks in four of the five buckets.
C15_WitnessOtherModes ==
    \/ /\ viewMode = "category" /\ \E i \in 1..Len(Shown) : Dangling(Shown[i])
    \/ /\ viewMode = "calendar" /\ tasks = DueTasks /\ Shown = tasks /\ Today = 1

----------------------------------------------------------------------------
\* Every task's categoryId is absent or names a category: in memory ...
MemoryConsistent == \A i \in 1..Len(tasks) : ~Dangling(tasks[i])

\* ... and in what the two stored items hold, when both hold a JSON text.
StorageConsistent ==
    (storage.tasks.kind = "json" /\ storage.categories.kind = "json")
        => \A i \in 1..Len(storage.tasks.value) :
              LET o == storage.tasks.value[i]
              IN  "categoryId" \in DOMAIN o
                      => \E j \in 1..Len(storage.categories.value) :
                            storage.categories.value[j].id = o.categoryId

\* C16: under UI-driven use that starts from consistent storage (task form
\* submissions, status toggles, task deletions, category additions, edits and
\* deletions, navigation between the two pages), every task's categoryId is
\* absent or names an existing category, in memory and in storage.
C16_ReferentialConsistency == MemoryConsistent /\ StorageConsistent

\* On the category page the category of the first stored task was deleted: the
\* task is left without category, in memory and in storage.
C16_Witness ==
    /\ Idle
    /\ page = "categories"
    /\ lastCall = "deleteCategory"
    /\ Len(tasks) = 2
    /\ uuidv4(1) \notin Ids(categories)
    /\ tasks[1].categoryId = Undefined
    /\ tasks[2].categoryId = Def("1")
    /\ "categoryId" \notin DOMAIN storage.tasks.value[1]
    /\ storage.tasks.value[2].categoryId = "1"

----------------------------------------------------------------------------
\* The text is empty or holds white space only.
Blank(s) == \A i \in 1..Len(s) : s[i] = Space

\* C14: a task form submitted with a title that is empty or only white space is
\* rejected: neither addTask nor updateTask is called, the tasks and storage
\* are unchanged and the dialog stays open; so every task created or edited
\* through the form has a title with a character that is no white space. The
\* category form does the same for the category name.
C14_BlankIsRejected ==
    [][/\ (page = "index" /\ isAddDialogOpen)
            => \A f \in TypedInto(form[1]) :
                  SubmitTaskFormWith(f)
                      => IF Blank(f.title)
                         THEN /\ lastCall' \notin {"addTask", "updateTask"}
                              /\ tasks' = tasks
                              /\ storage' = storage
                              /\ isAddDialogOpen'
                              /\ form' = form
                         ELSE \A i \in 1..Len(tasks') :
                                 (i > Len(tasks) \/ tasks'[i] # tasks[i])
                                     => ~Blank(tasks'[i].title)
       /\ (page = "categories" /\ isDialogOpen)
            => \A f \in CategoryTypedInto(form[1]) :
                  SubmitCategoryFormWith(f)
                      => IF Blank(f.name)
                         THEN /\ lastCall' \notin {"addCategory", "updateCategory"}
                              /\ categories' = categories
                              /\ storage' = storage
                              /\ isDialogOpen'
                              /\ form' = form
                         ELSE \A i \in 1..Len(categories') :
                                 (i > Len(categories) \/ categories'[i] # categories[i])
                                     => ~Blank(categories'[i].name)]_vars

\* The edit dialog of a task is still open after a submission that called
\* nothing, and what is stored is what was stored when the page was mounted.
C14_Witness ==
    /\ page = "index"
    /\ isAddDialogOpen
    /\ opener.button = "edit"
    /\ lastCall = "none"
    /\ form # Undefined
    /\ tasks = EarlierTasks
    /\ storage.tasks = stringifyTasks(EarlierTasks)

\* The same on the category page.
C14_WitnessCategory ==
    /\ page = "categories"
    /\ isDialogOpen
    /\ lastCall = "none"
    /\ categories = EarlierCategories

----------------------------------------------------------------------------
\* A submission of the task form that was not rejected.
ValidTaskSubmission ==
    /\ page = "index" /\ isAddDialogOpen
    /\ \E f \in TypedInto(form[1]) : ~Blank(f.title) /\ SubmitTaskFormWith(f)

\* C17: whenever the task dialog was opened with the 'Add Task' button, a valid
\* submission of its form appends exactly one new task and modifies no existing
\* task, whatever dialog events came before (an edit dialog dismissed through
\* the dialog's own close control included).
C17_AddAppendsOne ==
    [][(opener.button = "add" /\ ValidTaskSubmission)
          => /\ Len(tasks') = Len(tasks) + 1
             /\ \A i \in 1..Len(tasks) : tasks'[i] = tasks[i]]_vars

\* C18: whenever the task dialog was opened with the edit button of task U, a
\* valid submission of its form updates the task with U's identifier and leaves
\* the number of tasks unchanged, under every interleaving with the delayed
\* reset of the task being edited that an earlier submission or cancel
\* scheduled.
C18_EditUpdatesThatTask ==
    [][(opener.button = "edit" /\ ValidTaskSubmission)
          => /\ lastCall' = "updateTask"
             /\ Len(tasks') = Len(tasks)
             /\ \A i \in 1..Len(tasks) :
                   tasks[i].id # opener.id => tasks'[i] = tasks[i]]_vars

====
